---- MODULE Spec2Model ----
(***************************************************************************)
(* Model of scraper.py: a main thread seeds two request queues from the   *)
(* first search page, search-page workers walk the page chain, car-data   *)
(* workers fetch one detail resource per listing, and a single result     *)
(* worker batches the records and rewrites the run's JSON file.           *)
(* Every queue is a queue.Queue: a FIFO of items plus the unfinished_tasks *)
(* counter that put() increments, task_done() decrements and join() waits  *)
(* on.                                                                     *)
(***************************************************************************)
EXTENDS Integers, Sequences, FiniteSets, Bags, TLC

\* ---------------------------------------------------------------- bounds
\* Number of search pages that follow the first page (START_URL).
MaxPages == 1
\* Threads started by start_workers: one search-page worker, as in the
\* source, and a pool of car-data workers (25 in the source).
NUM_SEARCH_PAGE_WORKERS == 1
NUM_CAR_DATA_WORKERS == 2
\* Largest search-page pool of the specification that varies
\* NUM_SEARCH_PAGE_WORKERS.
MaxSearchPageWorkers == 2
\* Batch threshold (10_000 in the source) and the 30 s timeout, in clock ticks.
BATCH_SIZE == 2
TIMEOUT_SECONDS == 1

\* ---------------------------------------------------------------- remote API
\* Search pages are numbered 0 (START_URL) .. MaxPages.  A link is the
\* string held in links.next: <<p>> is the URL of page p, <<>> is "".
Pages == 0 .. MaxPages
EmptyLink == << >>
PageLink(p) == << p >>
Links == { PageLink(p) : p \in 1 .. MaxPages } \cup { EmptyLink }

\* response.links.next of page p: the last page carries next = "".
NextLink(p) == IF p < MaxPages THEN PageLink(p + 1) ELSE EmptyLink

\* SearchPageResponse.get_car_data: the listings of page p, in order.  A
\* listing stands for its (car_data_link, car_attrs) pair, and for the
\* record {"car_attrs", "car_specs"} a successful detail fetch makes of it.
\* The first page lists two cars, every later page one.
get_car_data(p) == IF p = 0 THEN << 1, 2 >> ELSE << p + 2 >>
\* A listing without 'attributes', 'code' or 'year': the generator raises
\* KeyError when it comes to it.
BadListing == -2
\* What page p may carry in "data": its listings, its listings with the last
\* one malformed, or no listing at all.
ResponseData(p) ==
    { get_car_data(p),
      [ get_car_data(p) EXCEPT ![Len(get_car_data(p))] = BadListing ],
      << >> }
Items == 1 .. (MaxPages + 2)
\* A record left in the run file by an earlier run under the same name.
OldRecord == 0
\* The result worker's local `data` while no dequeued record is awaiting
\* task_done.
NoData == -1

\* The threads of a pool run the same loop and differ only in the worker_id
\* they log, so a pool is the bag of its threads' local states.
SearchIdle == [ pc |-> "get", link |-> EmptyLink, i |-> 1, data |-> << >> ]
CarIdle == [ pc |-> "get", link |-> 0, ok |-> FALSE ]
\* The pool after one thread moves from local state s to local state t.
Step(pool, s, t) == (pool (-) SetToBag({ s })) (+) SetToBag({ t })
\* The threads of a pool that hold an item they have not yet called
\* task_done() for.
Holding(pool, idle) == BagCardinality(pool) - CopiesIn(idle, pool)

\* ---------------------------------------------------------------- files
\* A path holds no file, a JSON list of records, or bytes json.load rejects.
NoFile == [ kind |-> "missing", data |-> << >> ]
Garbage == [ kind |-> "garbage", data |-> << >> ]
JsonFile(recs) == [ kind |-> "json", data |-> recs ]
\* The temporary path outside a flush: absent, or whatever an abandoned
\* flush left there (a complete or a partial dump).  open(temp_filename, 'w')
\* truncates it and nothing else reads it, so the three are not told apart.
Leftover == [ kind |-> "leftover", data |-> << >> ]

Range(s) == { s[i] : i \in 1 .. Len(s) }
Min(a, b) == IF a < b THEN a ELSE b

VARIABLES
    \* queue.Queue objects: items and unfinished_tasks
    search_page_request_queue, search_page_unfinished,
    car_data_request_queue, car_data_unfinished,
    car_data_result_queue, car_data_result_unfinished,
    \* main thread
    pc_main, main_i, initial_response,
    \* search_page_worker and car_data_worker threads
    search_workers, car_workers,
    \* save_car_data_worker thread
    pc_save, batch, data, elapsed, waited, from_get,
    \* the run file and its temporary twin
    final_file, temp_file,
    \* history
    pre_flush,                  \* the run file as the flush in progress found it
    committed,                  \* the run file as the last completed write left it
    clean,                      \* no flush has failed and the run file always parsed
    result_put,                 \* records ever put on car_data_result_queue
    page_fetched                \* <<link, ok>> of every link a search worker requested;
                                \* ok: its try block has not raised

vars == << search_page_request_queue, search_page_unfinished,
           car_data_request_queue, car_data_unfinished,
           car_data_result_queue, car_data_result_unfinished,
           pc_main, main_i, initial_response, search_workers, car_workers,
           pc_save, batch, data, elapsed, waited, from_get,
           final_file, temp_file,
           pre_flush, committed, clean, result_put, page_fetched >>

search_q_vars == << search_page_request_queue, search_page_unfinished >>
car_q_vars == << car_data_request_queue, car_data_unfinished >>
result_q_vars == << car_data_result_queue, car_data_result_unfinished >>
main_vars == << pc_main, main_i, initial_response >>
search_vars == << search_workers, page_fetched >>
car_vars == << car_workers >>
save_vars == << pc_save, batch, data, elapsed, waited, from_get >>
file_vars == << final_file, temp_file, pre_flush, committed, clean >>

\* ---------------------------------------------------------------- Init
\* State once start_workers() has returned: every worker is about to call
\* get() on its empty queue, the batch is empty and last_save_time is now.
\* The run file may be absent, hold an earlier run's records, or be corrupt.
InitialFiles == { NoFile, JsonFile(<< OldRecord >>), Garbage }

start_workers(n) ==
    /\ search_page_request_queue = << >>
    /\ search_page_unfinished = 0
    /\ car_data_request_queue = << >>
    /\ car_data_unfinished = 0
    /\ car_data_result_queue = << >>
    /\ car_data_result_unfinished = 0
    /\ pc_main = "initial_data_fetch"
    /\ main_i = 1
    /\ initial_response = << >>
    /\ search_workers = [ s \in { SearchIdle } |-> n ]
    /\ car_workers = [ s \in { CarIdle } |-> NUM_CAR_DATA_WORKERS ]
    /\ pc_save = "get"
    /\ batch = << >>
    /\ data = NoData
    /\ elapsed = 0
    /\ waited = 0
    /\ from_get = FALSE
    /\ final_file \in InitialFiles
    /\ temp_file = Leftover
    /\ pre_flush = final_file
    /\ committed = final_file
    /\ clean = ( final_file # Garbage )
    /\ result_put = { }
    /\ page_fetched = << >>

Init == start_workers(NUM_SEARCH_PAGE_WORKERS)

\* The same start with NUM_SEARCH_PAGE_WORKERS set to any pool size up to
\* MaxSearchPageWorkers.
InitAnyPool == \E n \in 1 .. MaxSearchPageWorkers : start_workers(n)

\* The process lives until the main thread returns from join_all() (or dies
\* on an uncaught exception); the workers are daemon threads and stop with it.
Running == pc_main \notin { "done", "crashed" }

\* ---------------------------------------------------------------- main thread
\* initial_data_fetch under @logger.catch: a failed request is logged and
\* None is returned, on which new_search_page_response raises TypeError in
\* the main thread; nothing catches it and the process ends.  Otherwise the
\* response is parsed and the loop of lines 334-335 is entered, or passed
\* over when the page lists nothing.
MainInitialFetch ==
    /\ pc_main = "initial_data_fetch"
    /\ \/ /\ pc_main' = "crashed"
          /\ initial_response' = initial_response
       \/ \E d \in ResponseData(0) :
             /\ initial_response' = d
             /\ pc_main' = IF d = << >> THEN "seed_next" ELSE "seed_cars"
    /\ main_i' = 1
    /\ UNCHANGED << search_q_vars, car_q_vars, result_q_vars,
                    search_vars, car_vars, save_vars, file_vars, result_put >>

\* One round of: for car_data_link, car_attrs in
\* initial_response.get_car_data(): put(...).  The loop is outside any try:
\* the KeyError of a malformed listing ends the process with the earlier
\* listings already queued.
MainSeedCar ==
    /\ pc_main = "seed_cars"
    /\ IF initial_response[main_i] = BadListing
          THEN /\ pc_main' = "crashed"
               /\ main_i' = main_i
               /\ UNCHANGED car_q_vars
          ELSE /\ car_data_request_queue' =
                      Append(car_data_request_queue, initial_response[main_i])
               /\ car_data_unfinished' = car_data_unfinished + 1
               /\ IF main_i < Len(initial_response)
                     THEN /\ main_i' = main_i + 1
                          /\ pc_main' = pc_main
                     ELSE /\ main_i' = 1
                          /\ pc_main' = "seed_next"
    /\ initial_response' = initial_response
    /\ UNCHANGED << search_q_vars, result_q_vars,
                    search_vars, car_vars, save_vars, file_vars, result_put >>

\* search_page_request_queue.put(initial_response.links.next)
MainSeedNext ==
    /\ pc_main = "seed_next"
    /\ search_page_request_queue' =
           Append(search_page_request_queue, NextLink(0))
    /\ search_page_unfinished' = search_page_unfinished + 1
    /\ pc_main' = "join_all"
    /\ main_i' = 1
    /\ initial_response' = initial_response
    /\ UNCHANGED << car_q_vars, result_q_vars,
                    search_vars, car_vars, save_vars, file_vars, result_put >>

\* unfinished_tasks of the queue named q.
Unfinished(q) ==
    CASE q = "search_page_request_queue" -> search_page_unfinished
      [] q = "car_data_request_queue" -> car_data_unfinished
      [] q = "car_data_result_queue" -> car_data_result_unfinished

\* The order in which join_all joins the queues, as a faulty variant would
\* have it (results first) and as the source has it.
join_all_results_first ==
    << "car_data_result_queue", "search_page_request_queue",
       "car_data_request_queue" >>
join_all ==
    << "search_page_request_queue", "car_data_request_queue",
       "car_data_result_queue" >>

\* One Queue.join() of join_all returning: it blocks while the queue's
\* unfinished_tasks is non-zero.  After the last one the process exits.
MainJoin ==
    /\ pc_main = "join_all"
    /\ Unfinished(join_all[main_i]) = 0
    /\ IF main_i < Len(join_all)
          THEN /\ main_i' = main_i + 1
               /\ pc_main' = pc_main
          ELSE /\ main_i' = main_i
               /\ pc_main' = "done"
    /\ initial_response' = initial_response
    /\ UNCHANGED << search_q_vars, car_q_vars, result_q_vars,
                    search_vars, car_vars, save_vars, file_vars, result_put >>

\* ---------------------------------------------------------------- queue.Queue
\* unfinished_tasks after get(): get() hands out an item and leaves the count
\* alone; only task_done() lowers it.  In the variant taking an item counts
\* as finishing it.
unfinished_after_get_marks_done(n) == n - 1
unfinished_after_get(n) == n

\* ---------------------------------------------------------------- search_page_worker
\* link = search_page_request_queue.get()
SearchPageGet(s) ==
    /\ Running
    /\ s.pc = "get"
    /\ search_page_request_queue # << >>
    /\ search_workers' = Step(search_workers, s,
           [ s EXCEPT !.pc = "fetch", !.link = Head(search_page_request_queue) ])
    /\ search_page_request_queue' = Tail(search_page_request_queue)
    /\ search_page_unfinished' = unfinished_after_get(search_page_unfinished)
    /\ UNCHANGED << car_q_vars, result_q_vars,
                    main_vars, page_fetched, car_vars, save_vars, file_vars,
                    result_put >>

\* What the try block does with a parsed response, in order: the loop that
\* puts the listings (lines 243-244), then the put of links.next (line 245).
\* The variant puts the next link first.
search_try_steps_next_first == << "put_next", "put_car" >>
search_try_steps == << "put_car", "put_next" >>

\* Where the worker goes after the request of lines 240-242: into the try
\* block's puts on success, to task_done at line 252 when the request or the
\* parse raised.
search_after_fetch(ok) == IF ok THEN search_try_steps[1] ELSE "task_done"

\* Where the worker goes when a step of the try block is finished: to the
\* next step, and from the last one to task_done.
search_after_step(step) ==
    IF step = search_try_steps[1] THEN search_try_steps[2] ELSE "task_done"

\* A for loop over no listing is passed over: control is at the step after
\* the loop.
skip_empty_loop(pc, d) ==
    IF pc = "put_car" /\ d = << >> THEN search_after_step("put_car") ELSE pc

\* s.get(link); raise_for_status(); new_search_page_response(result.json()).
\* requests rejects "" (MissingSchema) and any other request may fail.  The
\* exception is caught and logged.  A parsed response carries the page's
\* listings in response.data.
SearchPageFetch(s) ==
    /\ Running
    /\ s.pc = "fetch"
    /\ \E ok \in BOOLEAN :
          /\ ok => s.link # EmptyLink
          /\ page_fetched' = Append(page_fetched, << s.link, ok >>)
          /\ \E d \in IF ok THEN ResponseData(s.link[1]) ELSE { << >> } :
                search_workers' = Step(search_workers, s,
                    [ s EXCEPT
                        !.pc = skip_empty_loop(search_after_fetch(ok), d),
                        !.data = d ])
    /\ UNCHANGED << search_q_vars, car_q_vars, result_q_vars, main_vars,
                    car_vars, save_vars, file_vars, result_put >>

\* The history once the try block that requested link has raised after the
\* request itself went through.
raised_on(history, link) ==
    [ k \in 1 .. Len(history) |->
        IF history[k][1] = link THEN << link, FALSE >> ELSE history[k] ]

\* One round of: for car_data_link, attrs in response.get_car_data():
\*                   car_data_request_queue.put((car_data_link, attrs))
\* The KeyError of a malformed listing is caught at line 247: the listings
\* before it stay queued, links.next is not put (when the loop comes first)
\* and control is at task_done.
SearchPagePutCar(s) ==
    /\ Running
    /\ s.pc = "put_car"
    /\ IF s.data[s.i] = BadListing
          THEN /\ UNCHANGED car_q_vars
               /\ page_fetched' = raised_on(page_fetched, s.link)
               /\ search_workers' = Step(search_workers, s,
                      [ s EXCEPT !.i = 1, !.pc = "task_done" ])
          ELSE /\ car_data_request_queue' =
                      Append(car_data_request_queue, s.data[s.i])
               /\ car_data_unfinished' = car_data_unfinished + 1
               /\ page_fetched' = page_fetched
               /\ search_workers' = Step(search_workers, s,
                      IF s.i < Len(s.data)
                         THEN [ s EXCEPT !.i = s.i + 1 ]
                         ELSE [ s EXCEPT !.i = 1,
                                         !.pc = search_after_step("put_car") ])
    /\ UNCHANGED << search_q_vars, result_q_vars, main_vars,
                    car_vars, save_vars, file_vars, result_put >>

\* What page p's worker puts on the page-request queue at line 245: the one
\* link of response.links.next.  The variant submits it twice.
next_links_twice(p) == << NextLink(p), NextLink(p) >>
next_links(p) == << NextLink(p) >>

\* search_page_request_queue.put(response.links.next): unconditional, so the
\* "" of the last page is queued like any other link.  Line 246 then formats
\* response.current_page and response.total_pages, still inside the try
\* block: a value that does not take the format (null, a list, an object)
\* raises TypeError with the next link already put, and the page is logged
\* as failed.
SearchPagePutNext(s) ==
    /\ Running
    /\ s.pc = "put_next"
    /\ search_page_request_queue' =
           search_page_request_queue \o next_links(s.link[1])
    /\ search_page_unfinished' =
           search_page_unfinished + Len(next_links(s.link[1]))
    /\ \E raises \in BOOLEAN :
          page_fetched' = IF raises THEN raised_on(page_fetched, s.link)
                                    ELSE page_fetched
    /\ search_workers' = Step(search_workers, s,
           [ s EXCEPT !.pc = skip_empty_loop(search_after_step("put_next"),
                                             s.data) ])
    /\ UNCHANGED << car_q_vars, result_q_vars, main_vars,
                    car_vars, save_vars, file_vars, result_put >>

\* search_page_request_queue.task_done(), reached on success and on failure.
SearchPageTaskDone(s) ==
    /\ Running
    /\ s.pc = "task_done"
    /\ search_page_unfinished' = search_page_unfinished - 1
    /\ search_workers' = Step(search_workers, s, SearchIdle)
    /\ UNCHANGED << search_page_request_queue, car_q_vars, result_q_vars,
                    main_vars, page_fetched, car_vars, save_vars, file_vars,
                    result_put >>

\* ---------------------------------------------------------------- car_data_worker
\* link, car_attrs = car_data_request_queue.get()
CarDataGet(s) ==
    /\ Running
    /\ s.pc = "get"
    /\ car_data_request_queue # << >>
    /\ car_workers' = Step(car_workers, s,
           [ s EXCEPT !.pc = "fetch", !.link = Head(car_data_request_queue) ])
    /\ car_data_request_queue' = Tail(car_data_request_queue)
    /\ car_data_unfinished' = unfinished_after_get(car_data_unfinished)
    /\ UNCHANGED << search_q_vars, result_q_vars,
                    main_vars, search_vars, save_vars, file_vars, result_put >>

\* Where the worker goes after the try block of lines 264-273: to task_done
\* at line 277 whether or not an exception was caught.  In the variant
\* task_done sits inside the try block, so a failure bypasses it.
car_after_fetch_skips_task_done(ok) == IF ok THEN "task_done" ELSE "get"
car_after_fetch(ok) == "task_done"

\* The try block: on success the merged record is put on the result queue;
\* on any exception the error is logged and nothing is put.
CarDataFetch(s) ==
    /\ Running
    /\ s.pc = "fetch"
    /\ \E ok \in BOOLEAN :
          /\ car_workers' = Step(car_workers, s,
                 IF car_after_fetch(ok) = "get"
                    THEN CarIdle
                    ELSE [ s EXCEPT !.pc = car_after_fetch(ok), !.ok = ok ])
          /\ IF ok
                THEN /\ car_data_result_queue' =
                            Append(car_data_result_queue, s.link)
                     /\ car_data_result_unfinished' = car_data_result_unfinished + 1
                     /\ result_put' = result_put \cup { s.link }
                ELSE UNCHANGED << result_q_vars, result_put >>
    /\ UNCHANGED << search_q_vars, car_q_vars, main_vars, search_vars,
                    save_vars, file_vars >>

\* car_data_request_queue.task_done(), reached on success and on failure.
CarDataTaskDone(s) ==
    /\ Running
    /\ s.pc = "task_done"
    /\ car_data_unfinished' = car_data_unfinished - 1
    /\ car_workers' = Step(car_workers, s, CarIdle)
    /\ UNCHANGED << car_data_request_queue, search_q_vars, result_q_vars,
                    main_vars, search_vars, save_vars, file_vars, result_put >>

\* ---------------------------------------------------------------- save_car_data_worker
\* load_existing_data: [] for a missing file and for one json.load rejects
\* with JSONDecodeError, else the list the file holds.  The variant answers
\* an earlier run's record where the code answers the empty list.
load_existing_data_keeps_history(file) ==
    IF file.kind = "json" THEN file.data ELSE << OldRecord >>
load_existing_data(file) == IF file.kind = "json" THEN file.data ELSE << >>

\* existing_data.extend(batch) of line 138: the loaded records followed by
\* the batch's.  The variant appends the batch twice.
extend_twice(existing_data, b) == existing_data \o b \o b
extend(existing_data, b) == existing_data \o b

\* The trigger of line 293: len(batch) >= BATCH_SIZE or
\* (time.time() - last_save_time) >= TIMEOUT_SECONDS.
\* The variant looks at the clock only.
FlushDue_time_only(b, since) == since >= TIMEOUT_SECONDS
FlushDue(b, since) == Len(b) >= BATCH_SIZE \/ since >= TIMEOUT_SECONDS

\* process_batch's batch after save_batch_to_file returned ok: cleared on
\* True, kept on False.  The variant clears it whatever was returned.
process_batch_always_clears(ok, b) == << >>
process_batch(ok, b) == IF ok THEN << >> ELSE b

\* data = car_data_result_queue.get(timeout=...); batch.append(data); then
\* either process_batch is entered (the batch is non-empty, so it goes on to
\* save_batch_to_file) or control falls through to task_done.
SaveGet ==
    /\ Running
    /\ pc_save = "get"
    /\ car_data_result_queue # << >>
    /\ data' = Head(car_data_result_queue)
    /\ batch' = Append(batch, data')
    /\ car_data_result_queue' = Tail(car_data_result_queue)
    /\ IF FlushDue(batch', elapsed)
          THEN /\ pc_save' = "write_temp"
               /\ from_get' = TRUE
               /\ pre_flush' = final_file
          ELSE /\ pc_save' = "task_done"
               /\ from_get' = FALSE
               /\ pre_flush' = pre_flush
    /\ waited' = 0
    /\ UNCHANGED << search_q_vars, car_q_vars,
                    car_data_result_unfinished, main_vars, search_vars, car_vars,
                    elapsed, final_file, temp_file, committed, clean,
                    result_put >>

\* queue.Empty after TIMEOUT_SECONDS without an item: process_batch, which
\* does nothing for an empty batch, then last_save_time = time.time().
SaveEmpty ==
    /\ Running
    /\ pc_save = "get"
    /\ car_data_result_queue = << >>
    /\ waited >= TIMEOUT_SECONDS
    /\ IF batch # << >>
          THEN /\ pc_save' = "write_temp"
               /\ elapsed' = elapsed
               /\ pre_flush' = final_file
          ELSE /\ pc_save' = "get"
               /\ elapsed' = 0
               /\ pre_flush' = pre_flush
    /\ from_get' = FALSE
    /\ waited' = 0
    /\ UNCHANGED << search_q_vars, car_q_vars, result_q_vars,
                    main_vars, search_vars, car_vars, batch, data, final_file,
                    temp_file, committed, clean, result_put >>

\* save_batch_to_file returning ok to process_batch, and process_batch to the
\* worker loop: the batch is cleared or kept, last_save_time = time.time(),
\* and control is at task_done (lines 297-304) or back at get (307-312).
\* The run file is temp_file after a successful rename and untouched by the
\* step that failed otherwise.  The variant goes to task_done from the
\* queue.Empty branch as well.
after_process_batch_marks_done(got) == "task_done"
after_process_batch(got) == IF got THEN "task_done" ELSE "get"

FlushReturn(ok) ==
    /\ batch' = process_batch(ok, batch)
    /\ elapsed' = 0
    /\ waited' = 0
    /\ pc_save' = after_process_batch(from_get)
    /\ from_get' = FALSE
    /\ pre_flush' = IF ok THEN temp_file ELSE final_file
    /\ clean' = ( clean /\ ok )

\* Lines 136-144: load the run file, extend with the batch, dump to the
\* temporary file.  Any exception (unreadable run file, temporary file that
\* cannot be opened or fully written) makes save_batch_to_file return False.
SaveWriteTemp ==
    /\ Running
    /\ pc_save = "write_temp"
    /\ \/ /\ temp_file' = JsonFile(extend(load_existing_data(final_file), batch))
          /\ pc_save' = "remove"
          /\ UNCHANGED << batch, elapsed, waited, from_get, pre_flush, clean >>
       \/ /\ temp_file' = Leftover
          /\ FlushReturn(FALSE)
    /\ UNCHANGED << search_q_vars, car_q_vars, result_q_vars,
                    main_vars, search_vars, car_vars, data, final_file,
                    committed, result_put >>

\* Lines 147-148: if os.path.exists(final_filename): os.remove(final_filename).
\* Either way no run file is left when control reaches time.sleep(1), so the
\* state after this step lasts a second; an OSError from os.remove returns
\* False with the run file untouched.
SaveRemove ==
    /\ Running
    /\ pc_save = "remove"
    /\ \/ /\ final_file' = NoFile
          /\ pc_save' = "rename"
          /\ temp_file' = temp_file
          /\ UNCHANGED << batch, elapsed, waited, from_get, pre_flush, clean >>
       \/ /\ final_file # NoFile
          /\ final_file' = final_file
          /\ temp_file' = Leftover
          /\ FlushReturn(FALSE)
    /\ UNCHANGED << search_q_vars, car_q_vars, result_q_vars,
                    main_vars, search_vars, car_vars, data, committed,
                    result_put >>

\* Line 150: os.rename(temp_filename, final_filename), then return True; an
\* OSError from the rename returns False with the run file already removed.
SaveRename ==
    /\ Running
    /\ pc_save = "rename"
    /\ \/ /\ final_file' = temp_file
          /\ temp_file' = Leftover
          /\ committed' = temp_file
          /\ FlushReturn(TRUE)
       \/ /\ UNCHANGED << final_file, committed >>
          /\ temp_file' = Leftover
          /\ FlushReturn(FALSE)
    /\ UNCHANGED << search_q_vars, car_q_vars, result_q_vars,
                    main_vars, search_vars, car_vars, data, result_put >>

\* car_data_result_queue.task_done()
SaveTaskDone ==
    /\ Running
    /\ pc_save = "task_done"
    /\ car_data_result_unfinished' = car_data_result_unfinished - 1
    /\ pc_save' = "get"
    /\ data' = NoData
    /\ waited' = 0
    /\ UNCHANGED << search_q_vars, car_q_vars, car_data_result_queue,
                    main_vars, search_vars, car_vars, batch, elapsed, from_get,
                    file_vars, result_put >>

\* ---------------------------------------------------------------- time
\* One tick of the wall clock.  elapsed is time.time() - last_save_time and
\* waited is the time the result worker has been blocked in get() on the
\* empty result queue; both are only ever compared with TIMEOUT_SECONDS, so
\* they saturate there.
Tick ==
    /\ Running
    /\ elapsed' = Min(elapsed + 1, TIMEOUT_SECONDS)
    /\ waited' = IF pc_save = "get" /\ car_data_result_queue = << >>
                    THEN Min(waited + 1, TIMEOUT_SECONDS)
                    ELSE waited
    /\ UNCHANGED << search_q_vars, car_q_vars, result_q_vars,
                    main_vars, search_vars, car_vars, pc_save, batch, data,
                    from_get, file_vars, result_put >>

\* ---------------------------------------------------------------- specification
Next ==
    \/ MainInitialFetch
    \/ MainSeedCar
    \/ MainSeedNext
    \/ MainJoin
    \/ \E s \in BagToSet(search_workers) : SearchPageGet(s)
    \/ \E s \in BagToSet(search_workers) : SearchPageFetch(s)
    \/ \E s \in BagToSet(search_workers) : SearchPagePutCar(s)
    \/ \E s \in BagToSet(search_workers) : SearchPagePutNext(s)
    \/ \E s \in BagToSet(search_workers) : SearchPageTaskDone(s)
    \/ \E s \in BagToSet(car_workers) : CarDataGet(s)
    \/ \E s \in BagToSet(car_workers) : CarDataFetch(s)
    \/ \E s \in BagToSet(car_workers) : CarDataTaskDone(s)
    \/ SaveGet
    \/ SaveEmpty
    \/ SaveWriteTemp
    \/ SaveRemove
    \/ SaveRename
    \/ SaveTaskDone
    \/ Tick

Spec == Init /\ [][Next]_vars

\* The program with NUM_SEARCH_PAGE_WORKERS set to any pool size up to
\* MaxSearchPageWorkers.
PoolSpec == InitAnyPool /\ [][Next]_vars

\* The threads are scheduled fairly: the main thread, each pool and the result
\* worker take a step of their own that they are continuously able to take.
\* A request is not such a step: s.get is called without a timeout (lines
\* 112, 240, 264), so a thread stays in it for as long as the server keeps
\* the connection open without answering.  Nothing is assumed about the
\* clock or about which requests and file operations succeed.
MainLocal == MainSeedCar \/ MainSeedNext \/ MainJoin
SearchLocal ==
    \E s \in BagToSet(search_workers) :
        \/ SearchPageGet(s) \/ SearchPagePutCar(s)
        \/ SearchPagePutNext(s) \/ SearchPageTaskDone(s)
CarLocal ==
    \E s \in BagToSet(car_workers) : CarDataGet(s) \/ CarDataTaskDone(s)
SaveNext ==
    \/ SaveGet \/ SaveEmpty \/ SaveWriteTemp \/ SaveRemove \/ SaveRename
    \/ SaveTaskDone

FairSpec ==
    /\ Spec
    /\ WF_vars(MainLocal)
    /\ WF_vars(SearchLocal)
    /\ WF_vars(CarLocal)
    /\ WF_vars(SaveNext)

\* FairSpec, and the wall clock advances.
FairClockSpec == FairSpec /\ WF_vars(Tick)

\* ================================================================ properties
\* The main thread has put the first page's listings and next link.
Seeded == pc_main \in { "join_all", "done" }
\* join_all() has returned.
Drained == pc_main = "done"
\* save_batch_to_file is between its first line and its return.
FlushPcs == { "write_temp", "remove", "rename" }
\* This step is save_batch_to_file returning, and returning True / False.
FlushEnds == pc_save \in FlushPcs /\ pc_save' \notin FlushPcs
FlushSucceeds == FlushEnds /\ pc_save = "rename" /\ final_file' = temp_file
FlushFails == FlushEnds /\ ~ FlushSucceeds
\* The records a path holds.
Records(file) == Range(file.data)
\* The links requested by the search workers so far whose try block raised.
FailedPageFetches == { i \in 1 .. Len(page_fetched) : ~ page_fetched[i][2] }

\* ---------------------------------------------------------------- C1
\* C1: when join_all returns, every record a successful detail fetch put on
\* the result queue is in the run file and the batch is empty.
C1_DrainedMeansFlushed ==
    Drained =>
        /\ batch = << >>
        /\ Records(final_file) \ { OldRecord } = result_put

\* ---------------------------------------------------------------- C2
\* C2: a flush that fails after the temporary file was written (at the
\* removal or at the rename) leaves a run file that existed before the flush
\* in place with its pre-flush contents.
C2_FailedFlushKeepsStore ==
    [][ ( FlushFails /\ pc_save \in { "remove", "rename" } /\ pre_flush.kind = "json" )
            => final_file' = pre_flush ]_vars

\* ---------------------------------------------------------------- C3
\* C3: while a flush of an existing run file is in progress, a reader of the
\* run file's path finds the pre-flush contents or the post-flush contents
\* (the loaded list extended with the batch), never anything else.
C3_ReaderSeesPreOrPost ==
    ( pc_save \in FlushPcs /\ pre_flush # NoFile ) =>
        final_file \in { pre_flush,
                         JsonFile(load_existing_data(pre_flush) \o batch) }

\* ---------------------------------------------------------------- C4
\* C4: a successful flush leaves a run file holding every record the last
\* completed write had persisted and every record of the batch, however many
\* flush attempts failed in between.
C4_NoRecordLostByFailedFlush ==
    [][ FlushSucceeds =>
            ( Records(committed) \cup Range(batch) ) \subseteq Records(final_file') ]_vars

\* ---------------------------------------------------------------- C5
\* C5: the terminal sentinel "" is never put on the page-request queue and
\* never requested.
C5_SentinelNeverSubmitted ==
    /\ \A i \in 1 .. Len(search_page_request_queue) :
           search_page_request_queue[i] # EmptyLink
    /\ \A i \in 1 .. Len(page_fetched) : page_fetched[i][1] # EmptyLink

\* ---------------------------------------------------------------- C6
\* C6: under fair scheduling, once the page chain has ended (the pipeline is
\* seeded and the page-request queue's unfinished count is zero) join_all
\* eventually returns; and as long as no try block of a search worker has
\* raised, the page-request queue's unfinished count stays above zero.
C6_DrainTerminates ==
    /\ ( Seeded /\ search_page_unfinished = 0 ) ~> Drained
    /\ []( ( Seeded /\ FailedPageFetches = { } ) => search_page_unfinished > 0 )

\* ---------------------------------------------------------------- C7
\* C7: join_all has passed the join of a queue only if that queue's
\* unfinished count is zero, the queues being joined in the order page
\* requests, detail requests, results; when it returns all three are zero.
C7_JoinOrder ==
    /\ ( pc_main = "join_all" /\ main_i >= 2 ) => search_page_unfinished = 0
    /\ ( pc_main = "join_all" /\ main_i >= 3 ) =>
           search_page_unfinished = 0 /\ car_data_unfinished = 0
    /\ Drained =>
           /\ search_page_unfinished = 0
           /\ car_data_unfinished = 0
           /\ car_data_result_unfinished = 0

\* join_all returned after work went through all three queues.
C7_Witness ==
    /\ Drained
    /\ result_put # { }
    /\ Len(page_fetched) >= 2

\* ---------------------------------------------------------------- C8
\* C8: every detail request taken from the queue is marked complete exactly
\* once (the unfinished count is the queued requests plus the ones a worker
\* holds), a request whose fetch raised has put no record, and one whose
\* fetch succeeded has put its record.
C8_DetailFailureIsolated ==
    /\ car_data_unfinished =
           Len(car_data_request_queue) + Holding(car_workers, CarIdle)
    /\ \A s \in BagToSet(car_workers) :
           s.pc = "task_done" => ( s.ok <=> s.link \in result_put )

\* Of the first page's two requests one failed and one succeeded, both were
\* marked complete, and the detail queue is drained.
C8_Witness ==
    /\ pc_main = "join_all"
    /\ main_i = 3
    /\ Len(page_fetched) = 1
    /\ Cardinality(result_put) = 1

\* ---------------------------------------------------------------- C9
\* C9: every page link taken from the queue is marked complete exactly once,
\* on success and on failure (the unfinished count is the queued links plus
\* the ones a worker holds), and while a worker is still putting a page's
\* detail requests that page's next link has been neither queued nor
\* requested.
C9_PageMarkedOnce ==
    /\ search_page_unfinished =
           Len(search_page_request_queue) + Holding(search_workers, SearchIdle)
    /\ \A s \in BagToSet(search_workers) :
           s.pc = "put_car" =>
               /\ \A i \in 1 .. Len(search_page_request_queue) :
                      search_page_request_queue[i] # NextLink(s.link[1])
               /\ \A i \in 1 .. Len(page_fetched) :
                      page_fetched[i][1] # NextLink(s.link[1])

\* A page was consumed with success and another link with failure, and both
\* were marked complete.
C9_Witness ==
    /\ Len(page_fetched) = 2
    /\ page_fetched[1][2]
    /\ ~ page_fetched[2][2]
    /\ search_page_unfinished = 0
    /\ Holding(search_workers, SearchIdle) = 0

\* ---------------------------------------------------------------- C10
\* C10: a flush attempt that fails leaves the batch as it was and resets the
\* time since the last flush; the batch is emptied only by a flush attempt
\* that succeeds.
C10_BatchClearedOnlyOnSuccess ==
    [][ /\ FlushFails => ( batch' = batch /\ elapsed' = 0 )
        /\ ( batch # << >> /\ batch' = << >> ) => FlushSucceeds ]_vars

\* A size-triggered flush has failed: the full batch is still there and the
\* time since the last flush is zero.
C10_Witness ==
    /\ pc_save = "task_done"
    /\ Len(batch) >= BATCH_SIZE
    /\ elapsed = 0

\* ---------------------------------------------------------------- C11
\* C11: a record is taken from the result queue only at get, and when the
\* append that follows brings the batch to BATCH_SIZE or more the worker
\* enters save_batch_to_file before it can take another one, whatever the
\* time since the last flush.
C11_SizeTriggersFlush ==
    [][ Len(car_data_result_queue') < Len(car_data_result_queue) =>
            /\ pc_save = "get"
            /\ Len(batch') >= BATCH_SIZE => pc_save' = "write_temp" ]_vars

\* A flush entered on size alone: the timeout has not elapsed.
C11_Witness ==
    /\ pc_save = "write_temp"
    /\ from_get
    /\ Len(batch) >= BATCH_SIZE
    /\ elapsed < TIMEOUT_SECONDS

\* ---------------------------------------------------------------- C12
\* The result worker waits in get() on an empty queue with records in its
\* batch.
IdlePending ==
    /\ pc_save = "get"
    /\ batch # << >>
    /\ car_data_result_queue = << >>

\* C12: from a wait on the empty result queue with a non-empty batch, either
\* a record arrives or the wait times out and the worker enters
\* save_batch_to_file.
C12_IdleFlush ==
    IdlePending ~> ( pc_save \in FlushPcs \/ car_data_result_queue # << >> )

\* ---------------------------------------------------------------- C13
\* C13: no fetch failure ends the process: whenever the process has ended,
\* it ended because join_all returned, never because a failed fetch raised
\* in the main thread.
C13_NoFetchFailureFatal ==
    ~Running => pc_main = "done"

\* ---------------------------------------------------------------- C14
\* C14: the batch never holds more than BATCH_SIZE records.
C14_BatchBounded ==
    Len(batch) <= BATCH_SIZE

\* ---------------------------------------------------------------- C15
\* No element occurs twice in the sequence.
NoDuplicates(s) == \A i, j \in 1 .. Len(s) : s[i] = s[j] => i = j

\* C15: the run file never holds a record twice, and outside
\* save_batch_to_file the batch and the run file share no record.
C15_PersistedAtMostOnce ==
    /\ NoDuplicates(final_file.data)
    /\ pc_save \notin FlushPcs => Range(batch) \cap Records(final_file) = {}

\* The run file has grown by a flush and the batch holds a later record.
C15_Witness ==
    /\ pc_save \notin FlushPcs
    /\ batch # << >>
    /\ final_file.kind = "json"
    /\ Len(final_file.data) >= 2

\* ---------------------------------------------------------------- C16
\* The result worker holds a dequeued record it has not marked complete.
HoldsRecord == IF data # NoData THEN 1 ELSE 0

\* C16: task_done on the result queue is called only for a dequeued record
\* that is by then in the batch or in the run file, and once per dequeued
\* record: the queue's unfinished count is always the records still queued
\* plus the one the worker holds, so a wait that timed out marks nothing.
C16_MarkedAfterKept ==
    /\ [] ( car_data_result_unfinished
                = Len(car_data_result_queue) + HoldsRecord )
    /\ [][ car_data_result_unfinished' # car_data_result_unfinished
              /\ Len(car_data_result_queue') = Len(car_data_result_queue)
            => /\ pc_save = "task_done"
               /\ data # NoData
               /\ data \in Range(batch) \cup Records(final_file)
               /\ car_data_result_unfinished' = car_data_result_unfinished - 1
               /\ data' = NoData ]_vars

\* task_done is about to be called for a record that a flush has moved from
\* the batch to the run file.
C16_Witness ==
    /\ pc_save = "task_done"
    /\ data \in Records(final_file)
    /\ data \notin Range(batch)

\* ---------------------------------------------------------------- C17
\* C17: a flush that found the run file missing or unparseable and succeeds
\* leaves a run file holding exactly the batch's records, in order.
C17_MissingOrCorruptIsEmpty ==
    [][ FlushSucceeds /\ pre_flush.kind \in { "missing", "garbage" }
            => final_file' = JsonFile(batch) ]_vars

\* A flush has succeeded over a missing or unparseable run file: the run
\* file holds records and none of an earlier run.
C17_Witness ==
    /\ pc_save \notin FlushPcs
    /\ final_file.kind = "json"
    /\ final_file.data # << >>
    /\ OldRecord \notin Records(final_file)

\* ---------------------------------------------------------------- C18
\* C18: once the main thread has seeded the queues, a page-request count of
\* zero stays zero and no detail request is put from then on; and with the
\* detail-request count zero as well, both stay zero and no record is put on
\* the result queue from then on.
C18_NoPrematureZero ==
    /\ [][ Seeded /\ search_page_unfinished = 0
             => /\ Seeded'
                /\ search_page_unfinished' = 0
                /\ car_data_unfinished' <= car_data_unfinished
                /\ Len(car_data_request_queue') <= Len(car_data_request_queue)
          ]_vars
    /\ [][ Seeded /\ search_page_unfinished = 0 /\ car_data_unfinished = 0
             => /\ car_data_unfinished' = 0
                /\ result_put' = result_put
                /\ Len(car_data_result_queue') <= Len(car_data_result_queue)
          ]_vars

\* Both counts are zero after the chain was followed to its end and records
\* were produced, some of them still on the result queue.
C18_Witness ==
    /\ Seeded
    /\ search_page_unfinished = 0
    /\ car_data_unfinished = 0
    /\ Len(page_fetched) >= 2
    /\ car_data_result_queue # << >>

\* ---------------------------------------------------------------- C19
\* The links of the chain in order: the pages after START_URL's, then "".
ChainLink(i) == IF i <= MaxPages THEN PageLink(i) ELSE EmptyLink
\* The search workers between get() and the put of the next link: the
\* request is in flight or its response is being worked through.
FetchingPage ==
    { s \in BagToSet(search_workers) : s.pc \in { "fetch", "put_car", "put_next" } }

\* C19: with several search workers, the page-request queue and the workers
\* that have taken a link and not yet submitted its successor hold at most
\* one link between them, and the requests of the search workers follow the
\* chain in order.
C19_OneLinkInFlight ==
    /\ Len(search_page_request_queue)
           + BagCardinality([ s \in FetchingPage |-> CopiesIn(s, search_workers) ])
         <= 1
    /\ \A i \in 1 .. Len(page_fetched) : page_fetched[i][1] = ChainLink(i)

\* One worker requests a page while another has not yet marked the page
\* before it complete.
C19_Witness ==
    \E s, t \in BagToSet(search_workers) :
        /\ s.pc = "task_done"
        /\ t.pc = "fetch"
        /\ t.link = EmptyLink

\* ---------------------------------------------------------------- C20
\* How often r occurs in s.
Occurrences(r, s) == Cardinality({ i \in 1 .. Len(s) : s[i] = r })

\* C20: while no flush attempt has failed and the run file has always
\* parsed, every record a detail fetch has put on the result queue occurs
\* exactly once in the result queue, the batch and the run file taken
\* together, so no detail request has produced two records either.
C20_Conservation ==
    clean =>
        \A r \in result_put :
            Occurrences(r, car_data_result_queue \o batch \o final_file.data) = 1

====
